---------------------------- MODULE Spec2Model ----------------------------
(***************************************************************************)
(* A model of examples/common.h of the raw-gadget examples: the transport  *)
(* binding (the usb_raw_* wrappers around ioctl), the event logger         *)
(* (log_event, log_control_request), and the control-dispatch loop and     *)
(* endpoint workers that use them.                                         *)
(*                                                                         *)
(* Three specifications share the module:                                  *)
(*   SpecTransport  a caller invoking the wrappers, the kernel answering   *)
(*   SpecLog        log_event applied to event records                     *)
(*   Spec           the dispatch loop and the endpoint workers             *)
(***************************************************************************)
EXTENDS Integers, Sequences, FiniteSets, TLC

VARIABLES
    alive,      \* the process has not called exit()
    exitInfo,   \* who called exit(), with which perror() text
    fd,         \* the descriptor usb_raw_open returned (-1: not open)
    tcall,      \* SpecTransport: the last wrapper call and what came back
    nfail,      \* SpecTransport: consecutive failed usb_raw_ep_write_may_fail
    event,      \* SpecLog: the event record handed to log_event
    logged,     \* SpecLog: what log_event did with it
    dpc,        \* Spec: where the control-dispatch loop stands
    ev,         \* Spec: the event the loop fetched last
    ep0log,     \* Spec: the endpoint-0 calls made while handling ev
    devState,   \* Spec: DeviceState
    suspended,  \* Spec: the suspended flag
    epAddr,     \* Spec: kernel side, handle -> address of the enabled endpoint
    handles,    \* Spec: the dispatcher's list of the handles it enabled
    workers,    \* Spec: the roster of endpoint I/O workers
    cancel,     \* Spec: the shared cancellation flag
    reconf      \* Spec: the configuration in force replaced an earlier one

dvars == <<dpc, ev, ep0log, devState, suspended, epAddr, handles, workers,
           cancel, reconf>>
vars == <<alive, exitInfo, fd, tcall, nfail, event, logged, dvars>>

(***************************************************************************)
(* Bounds                                                                  *)
(***************************************************************************)
MaxRv == 2
MaxFail == 3

(***************************************************************************)
(* The kernel side of ioctl()/open(): -1 on failure, a count, a handle or  *)
(* 0 on success.                                                           *)
(***************************************************************************)
KernelRv == {-1} \cup (0 .. MaxRv)
KernelFd == {-1, 3, 4}

(***************************************************************************)
(* What a wrapper does with the kernel's answer: exit(EXIT_FAILURE) after  *)
(* perror(diag), return rv, or return nothing (a void function).  ret is   *)
(* <<>> when nothing reaches the caller and <<v>> when v is returned.      *)
(***************************************************************************)
Exit(req, diag) == [req |-> req, exits |-> TRUE, diag |-> diag, ret |-> <<>>]
Return(req, v) == [req |-> req, exits |-> FALSE, diag |-> "", ret |-> <<v>>]
ReturnVoid(req) == [req |-> req, exits |-> FALSE, diag |-> "", ret |-> <<>>]

usb_raw_open(rv) ==
    IF rv < 0 THEN Exit("open", "open()") ELSE Return("open", rv)

usb_raw_init(rv) ==
    IF rv < 0 THEN Exit("USB_RAW_IOCTL_INIT", "ioctl(USB_RAW_IOCTL_INIT)")
    ELSE ReturnVoid("USB_RAW_IOCTL_INIT")

usb_raw_run(rv) ==
    IF rv < 0 THEN Exit("USB_RAW_IOCTL_RUN", "ioctl(USB_RAW_IOCTL_RUN)")
    ELSE ReturnVoid("USB_RAW_IOCTL_RUN")

usb_raw_event_fetch(rv) ==
    IF rv < 0
    THEN Exit("USB_RAW_IOCTL_EVENT_FETCH", "ioctl(USB_RAW_IOCTL_EVENT_FETCH)")
    ELSE ReturnVoid("USB_RAW_IOCTL_EVENT_FETCH")

usb_raw_ep0_read(rv) ==
    IF rv < 0
    THEN Exit("USB_RAW_IOCTL_EP0_READ", "ioctl(USB_RAW_IOCTL_EP0_READ)")
    ELSE Return("USB_RAW_IOCTL_EP0_READ", rv)

usb_raw_ep0_write_wrongreq(rv) ==
    IF rv < 0
    THEN Exit("USB_RAW_IOCTL_EP0_READ", "ioctl(USB_RAW_IOCTL_EP0_WRITE)")
    ELSE Return("USB_RAW_IOCTL_EP0_READ", rv)

usb_raw_ep0_write(rv) ==
    IF rv < 0
    THEN Exit("USB_RAW_IOCTL_EP0_WRITE", "ioctl(USB_RAW_IOCTL_EP0_WRITE)")
    ELSE Return("USB_RAW_IOCTL_EP0_WRITE", rv)

usb_raw_ep_enable_unchecked(rv) ==
    Return("USB_RAW_IOCTL_EP_ENABLE", rv)

usb_raw_ep_enable(rv) ==
    IF rv < 0
    THEN Exit("USB_RAW_IOCTL_EP_ENABLE", "ioctl(USB_RAW_IOCTL_EP_ENABLE)")
    ELSE Return("USB_RAW_IOCTL_EP_ENABLE", rv)

usb_raw_ep_read(rv) ==
    IF rv < 0
    THEN Exit("USB_RAW_IOCTL_EP_READ", "ioctl(USB_RAW_IOCTL_EP_READ)")
    ELSE Return("USB_RAW_IOCTL_EP_READ", rv)

usb_raw_ep_disable(rv) ==
    IF rv < 0
    THEN Exit("USB_RAW_IOCTL_EP_DISABLE", "ioctl(USB_RAW_IOCTL_EP_DISABLE)")
    ELSE Return("USB_RAW_IOCTL_EP_DISABLE", rv)

usb_raw_ep_write_may_fail_fatal(rv) ==
    IF rv < 0
    THEN Exit("USB_RAW_IOCTL_EP_WRITE", "ioctl(USB_RAW_IOCTL_EP_WRITE)")
    ELSE Return("USB_RAW_IOCTL_EP_WRITE", rv)

usb_raw_ep_write_may_fail(rv) ==
    Return("USB_RAW_IOCTL_EP_WRITE", rv)

usb_raw_ep_write(rv) ==
    IF rv < 0
    THEN Exit("USB_RAW_IOCTL_EP_WRITE", "ioctl(USB_RAW_IOCTL_EP_WRITE)")
    ELSE Return("USB_RAW_IOCTL_EP_WRITE", rv)

usb_raw_configure(rv) ==
    IF rv < 0
    THEN Exit("USB_RAW_IOCTL_CONFIGURE", "ioctl(USB_RAW_IOCTL_CONFIGURED)")
    ELSE ReturnVoid("USB_RAW_IOCTL_CONFIGURE")

usb_raw_vbus_draw(rv) ==
    IF rv < 0
    THEN Exit("USB_RAW_IOCTL_VBUS_DRAW", "ioctl(USB_RAW_IOCTL_VBUS_DRAW)")
    ELSE ReturnVoid("USB_RAW_IOCTL_VBUS_DRAW")

usb_raw_eps_info(rv) ==
    IF rv < 0
    THEN Exit("USB_RAW_IOCTL_EPS_INFO", "ioctl(USB_RAW_IOCTL_EPS_INFO)")
    ELSE Return("USB_RAW_IOCTL_EPS_INFO", rv)

usb_raw_ep0_stall_strict(rv) ==
    IF rv <= 0
    THEN Exit("USB_RAW_IOCTL_EP0_STALL", "ioctl(USB_RAW_IOCTL_EP0_STALL)")
    ELSE ReturnVoid("USB_RAW_IOCTL_EP0_STALL")

usb_raw_ep0_stall(rv) ==
    IF rv < 0
    THEN Exit("USB_RAW_IOCTL_EP0_STALL", "ioctl(USB_RAW_IOCTL_EP0_STALL)")
    ELSE ReturnVoid("USB_RAW_IOCTL_EP0_STALL")

usb_raw_ep_set_halt_silent(rv) ==
    ReturnVoid("USB_RAW_IOCTL_EP_SET_HALT")

usb_raw_ep_set_halt(rv) ==
    IF rv < 0
    THEN Exit("USB_RAW_IOCTL_EP_SET_HALT", "ioctl(USB_RAW_IOCTL_EP_SET_HALT)")
    ELSE ReturnVoid("USB_RAW_IOCTL_EP_SET_HALT")

NoExit == [by |-> "none", diag |-> "", invalidated |-> FALSE]
NoCall == [op |-> "none", krv |-> 0, out |-> ReturnVoid("none")]

(***************************************************************************)
(* The state of the dispatch loop and the workers before the loop starts:  *)
(* nothing attached, nothing enabled, no worker.                           *)
(***************************************************************************)
MaxHandles == 2
MaxWorkers == 3
MaxWLength == 5

Handles == 0 .. (MaxHandles - 1)
WorkerIds == 1 .. MaxWorkers
NoAddr == 0
NoWorker == [st |-> "free", addr |-> NoAddr, handle |-> -1]

InitDispatch ==
    /\ dpc = "fetch"
    /\ ev = <<>>
    /\ ep0log = <<>>
    /\ devState = "Unattached"
    /\ suspended = FALSE
    /\ epAddr = [h \in Handles |-> NoAddr]
    /\ handles = <<>>
    /\ workers = [w \in WorkerIds |-> NoWorker]
    /\ cancel = FALSE
    /\ reconf = FALSE

(***************************************************************************)
(* SpecTransport: a caller opens the channel and then invokes the wrappers *)
(* in any order; the kernel answers each call with any of its results.     *)
(***************************************************************************)
Invoke(op, rv, out) ==
    /\ alive
    /\ tcall' = [op |-> op, krv |-> rv, out |-> out]
    /\ alive' = ~out.exits
    /\ exitInfo' = IF out.exits
                   THEN [by |-> "main", diag |-> out.diag, invalidated |-> FALSE]
                   ELSE exitInfo
    /\ UNCHANGED <<event, logged, dvars>>

T_open ==
    /\ fd < 0
    /\ \E rv \in KernelFd :
        /\ Invoke("usb_raw_open", rv, usb_raw_open(rv))
        /\ fd' = rv
    /\ UNCHANGED nfail

T_init ==
    /\ fd >= 0
    /\ \E rv \in KernelRv : Invoke("usb_raw_init", rv, usb_raw_init(rv))
    /\ nfail' = 0
    /\ UNCHANGED fd

T_run ==
    /\ fd >= 0
    /\ \E rv \in KernelRv : Invoke("usb_raw_run", rv, usb_raw_run(rv))
    /\ nfail' = 0
    /\ UNCHANGED fd

T_event_fetch ==
    /\ fd >= 0
    /\ \E rv \in KernelRv :
        Invoke("usb_raw_event_fetch", rv, usb_raw_event_fetch(rv))
    /\ nfail' = 0
    /\ UNCHANGED fd

T_ep0_read ==
    /\ fd >= 0
    /\ \E rv \in KernelRv : Invoke("usb_raw_ep0_read", rv, usb_raw_ep0_read(rv))
    /\ nfail' = 0
    /\ UNCHANGED fd

T_ep0_write ==
    /\ fd >= 0
    /\ \E rv \in KernelRv : Invoke("usb_raw_ep0_write", rv, usb_raw_ep0_write(rv))
    /\ nfail' = 0
    /\ UNCHANGED fd

T_ep_enable ==
    /\ fd >= 0
    /\ \E rv \in KernelRv : Invoke("usb_raw_ep_enable", rv, usb_raw_ep_enable(rv))
    /\ nfail' = 0
    /\ UNCHANGED fd

T_ep_read ==
    /\ fd >= 0
    /\ \E rv \in KernelRv : Invoke("usb_raw_ep_read", rv, usb_raw_ep_read(rv))
    /\ nfail' = 0
    /\ UNCHANGED fd

T_ep_disable ==
    /\ fd >= 0
    /\ \E rv \in KernelRv : Invoke("usb_raw_ep_disable", rv, usb_raw_ep_disable(rv))
    /\ nfail' = 0
    /\ UNCHANGED fd

T_ep_write_may_fail ==
    /\ fd >= 0
    /\ \E rv \in KernelRv :
        /\ rv < 0 => nfail < MaxFail
        /\ Invoke("usb_raw_ep_write_may_fail", rv, usb_raw_ep_write_may_fail(rv))
        /\ nfail' = IF rv < 0 THEN nfail + 1 ELSE 0
    /\ UNCHANGED fd

T_ep_write ==
    /\ fd >= 0
    /\ \E rv \in KernelRv : Invoke("usb_raw_ep_write", rv, usb_raw_ep_write(rv))
    /\ nfail' = 0
    /\ UNCHANGED fd

T_configure ==
    /\ fd >= 0
    /\ \E rv \in KernelRv : Invoke("usb_raw_configure", rv, usb_raw_configure(rv))
    /\ nfail' = 0
    /\ UNCHANGED fd

T_vbus_draw ==
    /\ fd >= 0
    /\ \E rv \in KernelRv : Invoke("usb_raw_vbus_draw", rv, usb_raw_vbus_draw(rv))
    /\ nfail' = 0
    /\ UNCHANGED fd

T_eps_info ==
    /\ fd >= 0
    /\ \E rv \in KernelRv : Invoke("usb_raw_eps_info", rv, usb_raw_eps_info(rv))
    /\ nfail' = 0
    /\ UNCHANGED fd

T_ep0_stall ==
    /\ fd >= 0
    /\ \E rv \in KernelRv : Invoke("usb_raw_ep0_stall", rv, usb_raw_ep0_stall(rv))
    /\ nfail' = 0
    /\ UNCHANGED fd

T_ep_set_halt ==
    /\ fd >= 0
    /\ \E rv \in KernelRv :
        Invoke("usb_raw_ep_set_halt", rv, usb_raw_ep_set_halt(rv))
    /\ nfail' = 0
    /\ UNCHANGED fd

InitTransport ==
    /\ alive = TRUE
    /\ exitInfo = NoExit
    /\ fd = -1
    /\ tcall = NoCall
    /\ nfail = 0
    /\ event = <<>>
    /\ logged = <<>>
    /\ InitDispatch

NextTransport ==
    \/ T_open
    \/ T_init
    \/ T_run
    \/ T_event_fetch
    \/ T_ep0_read
    \/ T_ep0_write
    \/ T_ep_enable
    \/ T_ep_read
    \/ T_ep_disable
    \/ T_ep_write_may_fail
    \/ T_ep_write
    \/ T_configure
    \/ T_vbus_draw
    \/ T_eps_info
    \/ T_ep0_stall
    \/ T_ep_set_halt

SpecTransport == InitTransport /\ [][NextTransport]_vars


(***************************************************************************)
(* The event logger.  An event record is a 32-bit type tag, a 32-bit       *)
(* payload length and the payload bytes; the caller's buffer holds room    *)
(* for the 8 bytes of a struct usb_ctrlrequest, of which the kernel wrote  *)
(* the first `length`: the bytes past them are whatever the buffer held.   *)
(***************************************************************************)
MaxType == 7
MaxReq == 12

\* A __u32 is held as its two 16-bit halves <<high, low>>.
Half == 2 ^ 16
Word(n) == <<n \div Half, n % Half>>
\* a __u32 printed with %d: the value as a signed 32-bit int
AsInt(u) ==
    IF u[1] >= Half \div 2 THEN (u[1] - Half) * Half + u[2]
    ELSE u[1] * Half + u[2]

USB_RAW_EVENT_CONNECT == 1
USB_RAW_EVENT_CONTROL == 2
USB_RAW_EVENT_SUSPEND == 3
USB_RAW_EVENT_RESUME == 4
USB_RAW_EVENT_RESET == 5
USB_RAW_EVENT_DISCONNECT == 6

GET_DEVICE_ID == 0
GET_PORT_STATUS == 1
SOFT_RESET == 2

\* case labels, in source order, as <<label, value>>
TypeLabels ==
    << <<"USB_TYPE_STANDARD", 0>>, <<"USB_TYPE_CLASS", 32>>,
       <<"USB_TYPE_VENDOR", 64>> >>

StandardReqLabels ==
    << <<"USB_REQ_GET_DESCRIPTOR", 6>>, <<"USB_REQ_SET_CONFIGURATION", 9>>,
       <<"USB_REQ_GET_CONFIGURATION", 8>>, <<"USB_REQ_SET_INTERFACE", 11>>,
       <<"USB_REQ_GET_INTERFACE", 10>>, <<"USB_REQ_GET_STATUS", 0>>,
       <<"USB_REQ_CLEAR_FEATURE", 1>>, <<"USB_REQ_SET_FEATURE", 3>> >>

DescriptorLabels ==
    << <<"USB_DT_DEVICE", 1>>, <<"USB_DT_CONFIG", 2>>, <<"USB_DT_STRING", 3>>,
       <<"USB_DT_INTERFACE", 4>>, <<"USB_DT_ENDPOINT", 5>>,
       <<"USB_DT_DEVICE_QUALIFIER", 6>>, <<"USB_DT_OTHER_SPEED_CONFIG", 7>>,
       <<"USB_DT_INTERFACE_POWER", 8>>, <<"USB_DT_OTG", 9>>,
       <<"USB_DT_DEBUG", 10>>, <<"USB_DT_INTERFACE_ASSOCIATION", 11>>,
       <<"USB_DT_SECURITY", 12>>, <<"USB_DT_KEY", 13>>,
       <<"USB_DT_ENCRYPTION_TYPE", 14>>, <<"USB_DT_BOS", 15>>,
       <<"USB_DT_DEVICE_CAPABILITY", 16>>,
       <<"USB_DT_WIRELESS_ENDPOINT_COMP", 17>>, <<"USB_DT_PIPE_USAGE", 36>>,
       <<"USB_DT_SS_ENDPOINT_COMP", 48>>, <<"HID_DT_HID", 33>>,
       <<"HID_DT_REPORT", 34>>, <<"HID_DT_PHYSICAL", 35>> >>

ClassReqLabels ==
    << <<"GET_DEVICE_ID", GET_DEVICE_ID>>,
       <<"GET_PORT_STATUS", GET_PORT_STATUS>>,
       <<"SOFT_RESET", SOFT_RESET>>,
       <<"HID_REQ_GET_REPORT", 1>>, <<"HID_REQ_GET_IDLE", 2>>,
       <<"HID_REQ_GET_PROTOCOL", 3>>, <<"HID_REQ_SET_REPORT", 9>>,
       <<"HID_REQ_SET_IDLE", 10>>, <<"HID_REQ_SET_PROTOCOL", 11>> >>

\* the default: labels of the class-request switch (lines 430 and 431)
ClassDefaultLabels == <<"default@430", "default@431">>

\* The labels of a switch that a value selects: the case labels carrying
\* that value, the default when there is none.  C wants at most one case
\* label per value and one default; where the source has more, a build
\* may take any of them.
Matching(labels, v) == {i \in DOMAIN labels : labels[i][2] = v}
Select(labels, v) ==
    IF Matching(labels, v) = {} THEN {"unknown"}
    ELSE {labels[i][1] : i \in Matching(labels, v)}

\* The labels of the class-request switch that a request code selects, and
\* what the selected label prints.
ClassReqSelected(b) ==
    IF Matching(ClassReqLabels, b) = {}
    THEN {ClassDefaultLabels[i] : i \in DOMAIN ClassDefaultLabels}
    ELSE Select(ClassReqLabels, b)
ClassReqName(label) ==
    IF \E i \in DOMAIN ClassDefaultLabels : ClassDefaultLabels[i] = label
    THEN "unknown" ELSE label

\* the fields of struct usb_ctrlrequest, read from the 8 payload bytes
bRequestType(d) == d[1]
bRequest(d) == d[2]
wValue(d) == d[3] + 256 * d[4]
wIndex(d) == d[5] + 256 * d[6]
wLength(d) == d[7] + 256 * d[8]

TypeBits(d) == ((bRequestType(d) \div 32) % 4) * 32      \* & USB_TYPE_MASK
DirName(d) == IF (bRequestType(d) \div 128) % 2 = 1 THEN "IN" ELSE "OUT"

\* log_control_request: the set of outputs it can print for the payload d.
\* It reads every field of the structure, that is payload bytes 0..7.
log_control_request(d) ==
    LET t == CHOOSE n \in Select(TypeLabels, TypeBits(d)) : TRUE
        head == [bRequestType |-> bRequestType(d), dir |-> DirName(d),
                 bRequest |-> bRequest(d), wValue |-> wValue(d),
                 wIndex |-> wIndex(d), wLength |-> wLength(d)]
        reqs == CASE t = "USB_TYPE_STANDARD" ->
                       Select(StandardReqLabels, bRequest(d))
                  [] t = "USB_TYPE_CLASS" ->
                       {ClassReqName(l) : l \in ClassReqSelected(bRequest(d))}
                  [] OTHER -> {"unknown"}
        descs(r) == IF t = "USB_TYPE_STANDARD" /\ r = "USB_REQ_GET_DESCRIPTOR"
                    THEN Select(DescriptorLabels, wValue(d) \div 256)
                    ELSE {"none"}
    IN  UNION { { [head |-> head, type |-> t, req |-> r, desc |-> ds,
                   read |-> 0 .. 7] : ds \in descs(r) } : r \in reqs }

NoCtrl == [head |-> <<>>, type |-> "none", req |-> "none", desc |-> "none",
           read |-> {}]

\* the labels shifted as if the enum began at CONNECT = 0
EventName_from_zero(type) ==
    CASE type = Word(USB_RAW_EVENT_CONNECT - 1) -> "connect"
      [] type = Word(USB_RAW_EVENT_CONTROL - 1) -> "control"
      [] type = Word(USB_RAW_EVENT_SUSPEND - 1) -> "suspend"
      [] type = Word(USB_RAW_EVENT_RESUME - 1) -> "resume"
      [] type = Word(USB_RAW_EVENT_RESET - 1) -> "reset"
      [] type = Word(USB_RAW_EVENT_DISCONNECT - 1) -> "disconnect"
      [] OTHER -> "unknown"

EventName(type) ==
    CASE type = Word(USB_RAW_EVENT_CONNECT) -> "connect"
      [] type = Word(USB_RAW_EVENT_CONTROL) -> "control"
      [] type = Word(USB_RAW_EVENT_SUSPEND) -> "suspend"
      [] type = Word(USB_RAW_EVENT_RESUME) -> "resume"
      [] type = Word(USB_RAW_EVENT_RESET) -> "reset"
      [] type = Word(USB_RAW_EVENT_DISCONNECT) -> "disconnect"
      [] OTHER -> "unknown"

\* log_event: the set of outputs for an event record
log_event(e) ==
    LET name == EventName(e.type)
        ctrls == IF name = "control" THEN log_control_request(e.data)
                 ELSE {NoCtrl}
    IN  { [event |-> name,
           shown |-> IF name = "unknown" THEN <<AsInt(e.type), e.length>>
                     ELSE IF name \in {"connect", "control"} THEN <<e.length>>
                     ELSE <<>>,
           ctrl |-> c] : c \in ctrls }

(***************************************************************************)
(* SpecLog: the loop that consumes events: an event record arrives, then   *)
(* log_event is applied to it.                                             *)
(***************************************************************************)
EventTypes ==
    {Word(n) : n \in 0 .. MaxType}
    \cup {<<Half \div 2, 0>>, <<Half - 1, Half - 1>>, <<1, 2>>}
EventLengths == {0, 4, 8}
RequestTypes == {0, 128, 33, 161, 64, 96}
DescTypes == {1, 3, 33, 34, 36, 99}
WLengths == {0, 18}

SetupBytes(rt, rq, val, idx, len) ==
    <<rt, rq, val % 256, val \div 256, idx % 256, idx \div 256,
      len % 256, len \div 256>>

Payloads ==
    { SetupBytes(rt, rq, dt * 256, 0, len) :
        rt \in RequestTypes, rq \in 0 .. MaxReq, dt \in DescTypes,
        len \in WLengths }

ZeroPayload == SetupBytes(0, 0, 0, 0, 0)

EventRecords ==
    { [type |-> Word(USB_RAW_EVENT_CONTROL), length |-> n, data |-> d] :
        n \in EventLengths, d \in Payloads }
    \cup
    { [type |-> t, length |-> n, data |-> ZeroPayload] :
        t \in EventTypes \ {Word(USB_RAW_EVENT_CONTROL)}, n \in EventLengths }

L_fetch ==
    /\ alive
    /\ \/ event = <<>>
       \/ logged # <<>>
    /\ event' \in EventRecords
    /\ logged' = <<>>
    /\ UNCHANGED <<alive, exitInfo, fd, tcall, nfail, dvars>>

L_log_event ==
    /\ alive
    /\ event # <<>>
    /\ logged = <<>>
    /\ logged' \in log_event(event)
    /\ UNCHANGED <<alive, exitInfo, fd, tcall, nfail, event, dvars>>

InitLog ==
    /\ alive = TRUE
    /\ exitInfo = NoExit
    /\ fd = 3
    /\ tcall = NoCall
    /\ nfail = 0
    /\ event = <<>>
    /\ logged = <<>>
    /\ InitDispatch

NextLog ==
    \/ L_fetch
    \/ L_log_event

SpecLog == InitLog /\ [][NextLog]_vars

(***************************************************************************)
(* The control-transfer dispatcher and the endpoint I/O workers, over the  *)
(* transport binding above.  One unit runs the fetch/dispatch loop; one    *)
(* worker per enabled endpoint blocks in its own read or write.            *)
(***************************************************************************)
Min(a, b) == IF a < b THEN a ELSE b
Lowest(S) == CHOOSE x \in S : \A y \in S : x <= y
IsIn(addr) == addr >= 128                            \* USB_DIR_IN set

\* the endpoints each configuration declares (a bulk OUT and a bulk IN)
DeclaredEndpoints(cfg) == IF cfg = 1 THEN <<1, 130>> ELSE <<>>

\* Descriptor catalog: lookup(type, index, languageId) -> <<bytes>> or <<>>
Lookup(req) ==
    CASE req.type = 1 /\ req.index = 0 -> << <<18, 1, 0, 2>> >>
      [] req.type = 2 /\ req.index = 0 -> << <<9, 2, 32>> >>
      [] req.type = 3 /\ req.index = 1 /\ req.languageId = 1033 ->
             << <<4, 3>> >>
      [] OTHER -> <<>>

DescriptorRequest(d) ==
    [type |-> wValue(d) \div 256, index |-> wValue(d) % 256,
     languageId |-> IF wValue(d) \div 256 = 3 THEN wIndex(d) ELSE 0]

\* the class requests the device profile handles (the printer's)
ClassHandlers ==
    [r \in {GET_DEVICE_ID, GET_PORT_STATUS, SOFT_RESET} |->
        IF r = SOFT_RESET THEN "nodata" ELSE "data_in"]

\* the handler a setup packet is routed to; "stall" for an unsupported one
Classify(d) ==
    LET t == CHOOSE n \in Select(TypeLabels, TypeBits(d)) : TRUE
        r == CHOOSE n \in Select(StandardReqLabels, bRequest(d)) : TRUE
    IN  CASE t = "USB_TYPE_STANDARD" ->
               (CASE r = "unknown" -> "stall"
                  [] r = "USB_REQ_GET_DESCRIPTOR" -> "get_descriptor"
                  [] r = "USB_REQ_SET_CONFIGURATION" -> "set_configuration"
                  [] r \in {"USB_REQ_GET_STATUS", "USB_REQ_GET_CONFIGURATION",
                            "USB_REQ_GET_INTERFACE"} -> "data_in"
                  [] OTHER -> "nodata")
          [] t = "USB_TYPE_CLASS" ->
               IF bRequest(d) \in DOMAIN ClassHandlers
               THEN ClassHandlers[bRequest(d)] ELSE "stall"
          [] OTHER -> "stall"

\* the events the bus delivers to the loop
ControlPayloads ==
    { SetupBytes(128, 6, dt * 256 + idx, IF dt = 3 THEN 1033 ELSE 0, len) :
        dt \in {1, 2, 3, 6}, idx \in {0, 1}, len \in 0 .. MaxWLength }
    \cup { SetupBytes(0, 9, 1, 0, 0),        \* SET_CONFIGURATION 1
           SetupBytes(1, 11, 0, 0, 0),       \* SET_INTERFACE
           SetupBytes(33, 2, 0, 0, 0),       \* class SOFT_RESET
           SetupBytes(128, 0, 0, 0, 2),      \* GET_STATUS
           SetupBytes(161, 1, 0, 0, 1),      \* class GET_PORT_STATUS
           SetupBytes(0, 12, 0, 0, 0),       \* standard, not recognised
           SetupBytes(128, 12, 0, 0, 2),     \* standard IN, not recognised
           SetupBytes(33, 7, 0, 0, 0),       \* class, not in the table
           SetupBytes(161, 7, 0, 0, 1),
           SetupBytes(64, 1, 0, 0, 0),       \* vendor, no handler
           SetupBytes(192, 1, 0, 0, 4) }

ControlEvents(kind) ==
    { [type |-> Word(USB_RAW_EVENT_CONTROL), length |-> 8, data |-> d] :
        d \in {p \in ControlPayloads : Classify(p) = kind} }

PlainEvent(t) == [type |-> t, length |-> 0, data |-> ZeroPayload]

NoIo == [ep |-> 0, flags |-> 0, length |-> 0, data |-> <<>>]
Ep0Call(o, stage, io, rv) == [req |-> o.req, stage |-> stage, io |-> io, rv |-> rv]

DExit(o) ==
    /\ alive' = FALSE
    /\ exitInfo' = [by |-> "dispatcher", diag |-> o.diag, invalidated |-> FALSE]
    /\ dpc' = "exited"

DStay == UNCHANGED <<alive, exitInfo>>

Attached == devState # "Unattached"
Idle == alive /\ dpc = "fetch"
Untouched == UNCHANGED <<fd, tcall, nfail, event, logged>>

\* usb_raw_event_fetch fails: the loop ends with the process
D_fetch_fail ==
    /\ Idle
    /\ LET o == usb_raw_event_fetch(-1)
       IN  IF o.exits THEN DExit(o) ELSE DStay /\ UNCHANGED dpc
    /\ ev' = <<>>
    /\ ep0log' = <<>>
    /\ UNCHANGED <<devState, suspended, epAddr, handles, workers, cancel,
                   reconf>>
    /\ Untouched

\* one endpoint-0 call that ends the handling of the event
Ep0Finish(o, entry) ==
    /\ ep0log' = <<entry>>
    /\ IF o.exits THEN DExit(o) ELSE DStay /\ dpc' = "fetch"

\* stall endpoint 0
Stall ==
    \E rv \in {-1, 0} :
        LET o == usb_raw_ep0_stall(rv)
        IN  Ep0Finish(o, Ep0Call(o, "stall", NoIo, rv))

\* send the first min(wLength, Len(bytes)) bytes as the data stage
SendData(d, bytes) ==
    LET n == Min(Len(bytes), wLength(d))
        io == [ep |-> 0, flags |-> 0, length |-> n, data |-> SubSeq(bytes, 1, n)]
    IN  \E rv \in {-1, n} :
            LET o == usb_raw_ep0_write(rv)
            IN  Ep0Finish(o, Ep0Call(o, "data", io, rv))

\* zero-length status: written for a device-to-host request, read for a
\* host-to-device one
StatusAck(d) ==
    \E rv \in {-1, 0} :
        LET o == IF DirName(d) = "IN" THEN usb_raw_ep0_write(rv)
                 ELSE usb_raw_ep0_read(rv)
        IN  Ep0Finish(o, Ep0Call(o, "status", NoIo, rv))

KeepDevice ==
    UNCHANGED <<devState, suspended, epAddr, handles, workers, cancel, reconf>>

D_unsupported ==
    /\ Idle /\ Attached
    /\ \E e \in ControlEvents("stall") :
        /\ usb_raw_event_fetch(0).exits = FALSE
        /\ ev' = e
        /\ Stall
    /\ KeepDevice
    /\ Untouched

D_get_descriptor ==
    /\ Idle /\ Attached
    /\ \E e \in ControlEvents("get_descriptor") :
        /\ usb_raw_event_fetch(0).exits = FALSE
        /\ ev' = e
        /\ LET hit == Lookup(DescriptorRequest(e.data))
           IN  IF hit # <<>> THEN SendData(e.data, hit[1]) ELSE Stall
    /\ KeepDevice
    /\ Untouched

D_data_in ==
    /\ Idle /\ Attached
    /\ \E e \in ControlEvents("data_in") :
        /\ usb_raw_event_fetch(0).exits = FALSE
        /\ ev' = e
        /\ SendData(e.data, <<0, 0>>)
    /\ KeepDevice
    /\ Untouched

D_nodata ==
    /\ Idle /\ Attached
    /\ \E e \in ControlEvents("nodata") :
        /\ usb_raw_event_fetch(0).exits = FALSE
        /\ ev' = e
        /\ StatusAck(e.data)
    /\ KeepDevice
    /\ Untouched

\* disable every handle of the list hs in turn; the kernel refuses the
\* failAt-th call, and any call on a handle that is not enabled
RECURSIVE DisableAll(_, _, _, _)
DisableAll(hs, ep, failAt, i) ==
    IF hs = <<>> THEN [ep |-> ep, exit |-> <<>>]
    ELSE LET h == Head(hs).handle
             ok == failAt # i /\ h \in Handles /\ ep[h] # NoAddr
             o == usb_raw_ep_disable(IF ok THEN 0 ELSE -1)
             ep2 == IF ok THEN [ep EXCEPT ![h] = NoAddr] ELSE ep
         IN  IF o.exits THEN [ep |-> ep2, exit |-> <<o>>]
             ELSE DisableAll(Tail(hs), ep2, failAt, i + 1)

\* enable every address of the list in turn; the kernel hands out the lowest
\* free handle, and refuses the failAt-th call and any call when none is free
RECURSIVE EnableAll(_, _, _, _, _)
EnableAll(addrs, ep, hs, failAt, i) ==
    IF addrs = <<>> THEN [ep |-> ep, handles |-> hs, exit |-> <<>>]
    ELSE LET free == {h \in Handles : ep[h] = NoAddr}
             ok == failAt # i /\ free # {}
             rv == IF ok THEN Lowest(free) ELSE -1
             o == usb_raw_ep_enable(rv)
             ep2 == IF ok THEN [ep EXCEPT ![rv] = Head(addrs)] ELSE ep
         IN  IF o.exits THEN [ep |-> ep2, handles |-> hs, exit |-> <<o>>]
             ELSE EnableAll(Tail(addrs), ep2,
                            Append(hs, [addr |-> Head(addrs), handle |-> o.ret[1]]),
                            failAt, i + 1)

\* start one worker per enabled handle, each in the lowest free roster slot
RECURSIVE Spawn(_, _)
Spawn(ws, hs) ==
    IF hs = <<>> THEN ws
    ELSE LET free == {w \in WorkerIds : ws[w].st = "free"}
         IN  IF free = {} THEN Spawn(ws, Tail(hs))
             ELSE Spawn([ws EXCEPT ![Lowest(free)] =
                            [st |-> "run", addr |-> Head(hs).addr,
                             handle |-> Head(hs).handle]],
                        Tail(hs))

NoWorkers == [w \in WorkerIds |-> NoWorker]
AllStopped == \A w \in WorkerIds : workers[w].st \in {"free", "done"}

\* signal the workers to stop and disable the endpoints; the join follows
Teardown(joinAt) ==
    \E failAt \in 0 .. Len(handles) :
        LET r == DisableAll(handles, epAddr, failAt, 1)
        IN  /\ cancel' = TRUE
            /\ epAddr' = r.ep
            /\ IF r.exit # <<>>
               THEN DExit(r.exit[1]) /\ UNCHANGED handles
               ELSE DStay /\ handles' = <<>> /\ dpc' = joinAt

\* SET_CONFIGURATION proper: configure, enable the declared endpoints, become
\* Configured, start the workers, acknowledge
Configure(d, ws, again) ==
    \E cfgRv \in {-1, 0}, failAt \in 0 .. Len(DeclaredEndpoints(wValue(d))) :
        LET o == usb_raw_configure(cfgRv)
            en == EnableAll(DeclaredEndpoints(wValue(d)), epAddr, <<>>, failAt, 1)
        IN  IF o.exits
            THEN /\ DExit(o)
                 /\ workers' = ws
                 /\ ep0log' = <<>>
                 /\ UNCHANGED <<epAddr, handles, devState, reconf>>
            ELSE /\ epAddr' = en.ep
                 /\ handles' = en.handles
                 /\ IF en.exit # <<>>
                    THEN /\ DExit(en.exit[1])
                         /\ workers' = ws
                         /\ ep0log' = <<>>
                         /\ UNCHANGED <<devState, reconf>>
                    ELSE /\ devState' = "Configured"
                         /\ reconf' = again
                         /\ workers' = Spawn(ws, en.handles)
                         /\ StatusAck(d)

D_set_configuration ==
    /\ Idle /\ Attached
    /\ \E e \in ControlEvents("set_configuration") :
        /\ usb_raw_event_fetch(0).exits = FALSE
        /\ ev' = e
        /\ IF handles = <<>> /\ workers = NoWorkers
           THEN Configure(e.data, workers, FALSE) /\ UNCHANGED cancel
           ELSE /\ Teardown("join_config")
                /\ ep0log' = <<>>
                /\ UNCHANGED <<devState, workers, reconf>>
    /\ UNCHANGED suspended
    /\ Untouched

D_join_config ==
    /\ alive /\ dpc = "join_config"
    /\ AllStopped
    /\ cancel' = FALSE
    /\ Configure(ev.data, NoWorkers, TRUE)
    /\ UNCHANGED <<ev, suspended>>
    /\ Untouched

PlainEvents(names) ==
    {PlainEvent(t) : t \in {u \in EventTypes : EventName(u) \in names}}

\* Reset and Disconnect: back to Default or Unattached, stop the workers
D_reset ==
    /\ Idle /\ Attached
    /\ \E e \in PlainEvents({"reset", "disconnect"}) :
        /\ usb_raw_event_fetch(0).exits = FALSE
        /\ ev' = e
        /\ devState' = IF EventName(e.type) = "reset" THEN "Default"
                       ELSE "Unattached"
    /\ suspended' = FALSE
    /\ reconf' = FALSE
    /\ ep0log' = <<>>
    /\ Teardown("join_reset")
    /\ UNCHANGED workers
    /\ Untouched

D_join_reset ==
    /\ alive /\ dpc = "join_reset"
    /\ AllStopped
    /\ workers' = NoWorkers
    /\ cancel' = FALSE
    /\ dpc' = "fetch"
    /\ UNCHANGED <<alive, exitInfo, ev, ep0log, devState, suspended, epAddr,
                   handles, reconf>>
    /\ Untouched

D_connect ==
    /\ Idle /\ ~Attached
    /\ \E e \in PlainEvents({"connect"}) :
        /\ usb_raw_event_fetch(0).exits = FALSE
        /\ ev' = e
    /\ devState' = "Powered"
    /\ ep0log' = <<>>
    /\ UNCHANGED <<alive, exitInfo, dpc, suspended, epAddr, handles, workers,
                   cancel, reconf>>
    /\ Untouched

D_suspend_resume ==
    /\ Idle /\ Attached
    /\ \E e \in PlainEvents({"suspend", "resume"}) :
        /\ usb_raw_event_fetch(0).exits = FALSE
        /\ ev' = e
        /\ suspended' = (EventName(e.type) = "suspend")
    /\ ep0log' = <<>>
    /\ UNCHANGED <<alive, exitInfo, dpc, devState, epAddr, handles, workers,
                   cancel, reconf>>
    /\ Untouched

\* an event of a type the loop does not know: nothing to do
D_unknown ==
    /\ Idle
    /\ \E e \in PlainEvents({"unknown"}) :
        /\ usb_raw_event_fetch(0).exits = FALSE
        /\ ev' = e
    /\ ep0log' = <<>>
    /\ UNCHANGED <<alive, exitInfo, dpc, devState, suspended, epAddr, handles,
                   workers, cancel, reconf>>
    /\ Untouched

(***************************************************************************)
(* An endpoint worker: check the cancellation flag, issue the blocking     *)
(* read (OUT) or write (IN), and when the kernel completes it, go round.   *)
(***************************************************************************)
WorkerOnly(w, st) ==
    /\ workers' = [workers EXCEPT ![w].st = st]
    /\ UNCHANGED <<dpc, ev, ep0log, devState, suspended, epAddr, handles, cancel,
                   reconf>>
    /\ Untouched

W_check(w) ==
    /\ alive
    /\ workers[w].st = "run"
    /\ WorkerOnly(w, IF cancel THEN "done" ELSE "issue")
    /\ UNCHANGED <<alive, exitInfo>>

W_issue(w) ==
    /\ alive
    /\ workers[w].st = "issue"
    /\ WorkerOnly(w, "io")
    /\ UNCHANGED <<alive, exitInfo>>

HandleValid(w) ==
    /\ workers[w].handle \in Handles
    /\ epAddr[workers[w].handle] = workers[w].addr

W_complete(w) ==
    /\ alive
    /\ workers[w].st = "io"
    /\ \E rv \in (IF HandleValid(w) THEN KernelRv ELSE {-1}) :
        LET o == IF IsIn(workers[w].addr) THEN usb_raw_ep_write_may_fail(rv)
                 ELSE usb_raw_ep_read(rv)
        IN  IF o.exits
            THEN /\ alive' = FALSE
                 /\ exitInfo' = [by |-> "worker", diag |-> o.diag,
                                 invalidated |-> ~HandleValid(w)]
                 /\ WorkerOnly(w, "io")
            ELSE /\ UNCHANGED <<alive, exitInfo>>
                 /\ WorkerOnly(w, "run")

Init ==
    /\ alive = TRUE
    /\ exitInfo = NoExit
    /\ fd = 3
    /\ tcall = NoCall
    /\ nfail = 0
    /\ event = <<>>
    /\ logged = <<>>
    /\ InitDispatch

Next ==
    \/ D_fetch_fail
    \/ D_unsupported
    \/ D_get_descriptor
    \/ D_data_in
    \/ D_nodata
    \/ D_set_configuration
    \/ D_join_config
    \/ D_reset
    \/ D_join_reset
    \/ D_connect
    \/ D_suspend_resume
    \/ D_unknown
    \/ \E w \in WorkerIds : W_check(w)
    \/ \E w \in WorkerIds : W_issue(w)
    \/ \E w \in WorkerIds : W_complete(w)

Spec == Init /\ [][Next]_vars

(***************************************************************************)
(* Claims about the transport binding (checked under SpecTransport).       *)
(***************************************************************************)
FatalOps ==
    {"usb_raw_init", "usb_raw_run", "usb_raw_configure", "usb_raw_ep_enable",
     "usb_raw_ep_disable", "usb_raw_ep0_stall", "usb_raw_ep_set_halt",
     "usb_raw_vbus_draw"}
ValueOps == {"usb_raw_ep_enable", "usb_raw_ep_disable"}

FailedFatally ==
    /\ ~alive
    /\ exitInfo.diag # ""
    /\ tcall.out.ret = <<>>

\* C1 (as stated): for init, run, configure, endpoint enable, endpoint
\* disable, endpoint-0 stall, set-halt and vbus report, a failed kernel call
\* terminates the process with a diagnostic and returns nothing, and a
\* successful one leaves the process running and returns the kernel's
\* result unchanged.
C1_FatalOrResultReturned ==
    tcall.op \in FatalOps =>
        /\ tcall.krv < 0 => FailedFatally
        /\ tcall.krv >= 0 => alive /\ tcall.out.ret = <<tcall.krv>>

\* C1 (amended): as above, except that on success only endpoint enable and
\* endpoint disable return the kernel's result unchanged; init, run,
\* configure, endpoint-0 stall, set-halt and vbus report are void and
\* return no value.
C1_FatalOrReturns ==
    tcall.op \in FatalOps =>
        /\ tcall.krv < 0 => FailedFatally
        /\ tcall.krv >= 0 =>
            /\ alive
            /\ exitInfo = NoExit
            /\ tcall.op \in ValueOps => tcall.out.ret = <<tcall.krv>>
            /\ tcall.op \notin ValueOps => tcall.out.ret = <<>>

\* C1 witness: a set-halt whose kernel call failed: the process has exited
C1_Witness ==
    /\ tcall.op = "usb_raw_ep_set_halt"
    /\ tcall.krv < 0
    /\ ~alive
    /\ exitInfo.diag = "ioctl(USB_RAW_IOCTL_EP_SET_HALT)"

\* C2: a failed write through usb_raw_ep_write_may_fail comes back to the
\* caller as a negative result and never terminates the process, so after
\* any number of consecutive failed writes the caller is still running.
C2_WriteMayFailNeverFatal ==
    /\ (tcall.op = "usb_raw_ep_write_may_fail" /\ tcall.krv < 0) =>
          /\ alive
          /\ Len(tcall.out.ret) = 1
          /\ tcall.out.ret[1] = tcall.krv
          /\ tcall.out.ret[1] < 0
    /\ nfail > 0 =>
          /\ alive
          /\ tcall.op = "usb_raw_ep_write_may_fail"
          /\ tcall.out.ret = <<tcall.krv>>

\* C2 witness: MaxFail failed writes in a row, the caller still running
C2_Witness ==
    /\ nfail = MaxFail
    /\ alive
    /\ tcall.out.ret = <<-1>>

(***************************************************************************)
(* Claims about the event logger (checked under SpecLog).                  *)
(***************************************************************************)
ExpectedVariant(type) ==
    IF type[1] = 0 /\ type[2] \in 1 .. 6
    THEN <<"connect", "control", "suspend", "resume", "reset",
           "disconnect">>[type[2]]
    ELSE "unknown"

\* C6: decoding is total over the type tag: every tag yields exactly one
\* outcome, Connect, ControlSetup, Suspend, Resume, Reset or Disconnect for
\* the tags 1..6 and Unknown for every other value (0 included), and no
\* tag stops the loop that consumes events.
C6_DecodingTotal ==
    /\ (event # <<>> /\ logged = <<>>) =>
          /\ log_event(event) # {}
          /\ {o.event : o \in log_event(event)} = {ExpectedVariant(event.type)}
    /\ logged # <<>> =>
          /\ logged.event = ExpectedVariant(event.type)
          /\ logged.event = "unknown" => logged.shown[1] = AsInt(event.type)
          /\ alive

\* C6 witness: the tag 0 (USB_RAW_EVENT_INVALID) logged as unknown
C6_Witness ==
    /\ logged # <<>>
    /\ event.type = Word(0)
    /\ logged.event = "unknown"
    /\ alive

\* C7: a control event whose length field is smaller than the 8-byte setup
\* structure degrades to a no-op: no payload byte at or past the declared
\* length is read, and the payload is not interpreted as a setup packet.
C7_TruncatedControlNotDecoded ==
    (logged # <<>> /\ event.type = Word(USB_RAW_EVENT_CONTROL)
       /\ event.length < 8) =>
        /\ logged.ctrl.read \subseteq 0 .. (event.length - 1)
        /\ logged.ctrl = NoCtrl

\* C10: the class-request switch of log_control_request is a function of
\* the request code: every bRequest of a class request selects exactly one
\* label (one case label, or the one default when no case label matches).
C10_ClassTableIsFunction ==
    (logged # <<>> /\ logged.ctrl.type = "USB_TYPE_CLASS") =>
        Cardinality(ClassReqSelected(bRequest(event.data))) = 1

(***************************************************************************)
(* Claims about the dispatch loop and the workers (checked under Spec).    *)
(***************************************************************************)
HandledControl(kind) ==
    /\ ev # <<>>
    /\ EventName(ev.type) = "control"
    /\ Classify(ev.data) = kind

OneStall ==
    /\ Len(ep0log) = 1
    /\ ep0log[1].req = "USB_RAW_IOCTL_EP0_STALL"
    /\ ep0log[1].stage = "stall"

\* C3: when an endpoint handle is invalidated while a worker has a read or
\* write outstanding on it, the failing I/O ends at most that worker: the
\* process does not terminate.
C3_InvalidatedIoNotProcessFatal ==
    ~(exitInfo.by = "worker" /\ exitInfo.invalidated)

\* C4 (as stated): for every control event carrying an unsupported
\* standard, class or vendor request the dispatcher issues exactly one
\* stall on endpoint 0 and no endpoint-0 read or write, the stall does not
\* end the process, and the loop is back at fetching the next event.
C4_StallThenNextEvent ==
    HandledControl("stall") =>
        /\ OneStall
        /\ exitInfo.by # "dispatcher"
        /\ dpc = "fetch"

\* C4 (amended): exactly one stall and no endpoint-0 read or write; when the
\* kernel accepts the stall call the dispatcher does not end the process
\* and is back at fetching the next event; when the kernel rejects it the
\* process terminates with the stall diagnostic.
C4_StallThenNextEventIfAccepted ==
    HandledControl("stall") =>
        /\ OneStall
        /\ ep0log[1].rv >= 0 => exitInfo.by # "dispatcher" /\ dpc = "fetch"
        /\ ep0log[1].rv < 0 =>
              /\ ~alive
              /\ exitInfo.by = "dispatcher"
              /\ exitInfo.diag = "ioctl(USB_RAW_IOCTL_EP0_STALL)"

\* C4 witness: an unsupported vendor request stalled once, the loop back at fetch
C4_Witness ==
    /\ HandledControl("stall")
    /\ TypeBits(ev.data) = 64
    /\ OneStall
    /\ ep0log[1].rv = 0
    /\ alive
    /\ dpc = "fetch"

FirstBytes(bytes, m) == [i \in 1 .. m |-> bytes[i]]

\* C5: for a GET_DESCRIPTOR with wLength = L whose catalog lookup hits an
\* entry of length D, the data stage is exactly one endpoint-0 write of the
\* first min(L, D) bytes of the entry (for L = 0 a write of zero bytes);
\* a lookup miss produces a stall and no write.
C5_DescriptorTruncated ==
    HandledControl("get_descriptor") =>
        LET hit == Lookup(DescriptorRequest(ev.data))
            L == wLength(ev.data)
        IN  IF hit # <<>>
            THEN /\ Len(ep0log) = 1
                 /\ ep0log[1].req = "USB_RAW_IOCTL_EP0_WRITE"
                 /\ ep0log[1].stage = "data"
                 /\ ep0log[1].io.ep = 0
                 /\ ep0log[1].io.length = Min(L, Len(hit[1]))
                 /\ ep0log[1].io.data = FirstBytes(hit[1], Min(L, Len(hit[1])))
            ELSE OneStall

\* C5 witness: a GET_DESCRIPTOR hit with wLength = 0 answered by a zero-byte write
C5_Witness ==
    /\ HandledControl("get_descriptor")
    /\ wLength(ev.data) = 0
    /\ Lookup(DescriptorRequest(ev.data)) # <<>>
    /\ Len(ep0log) = 1
    /\ ep0log[1].req = "USB_RAW_IOCTL_EP0_WRITE"
    /\ ep0log[1].io.data = <<>>
    /\ alive

Active(w) == workers[w].st \in {"run", "issue", "io"}
Range(q) == {q[i] : i \in DOMAIN q}

=============================================================================
